---------------------------- MODULE Spec2Model ----------------------------
(***************************************************************************)
(* Model of the channel metadata pipeline of the MediaFlow IPTV addon:     *)
(*   src/app.py         the catalog server: build (generate_channel_list), *)
(*                      cache (get_all_channels), refresh thread, routes   *)
(*   src/m3u8_vavoo.py  the playlist exporter: pagination (get_channel_    *)
(*                      list)                                              *)
(* Names are strings; TLC treats a string as the sequence of its           *)
(* characters (Len, SubSeq and \o apply).                                  *)
(***************************************************************************)
EXTENDS Integers, Sequences, FiniteSets, TLC

(***************************************************************************)
(* Bounds of the model.                                                    *)
(***************************************************************************)
\* id suffixes generate_id can draw (stands for time.time() and randint)
MaxSuffix == 2
\* upstream calls one pagination run may make
MaxCalls == 3
\* items in one upstream page
MaxPage == 2
\* disturbances in one run of the server: writes that fail and changes of
\* the channel source
MaxEvents == 1
\* items in a fetched channel list given to generate_m3u
MaxItems == 2

(***************************************************************************)
(* Strings.                                                                *)
(***************************************************************************)
UpperLetters == "ABCDEFGHIJKLMNOPQRSTUVWXYZ"
LowerLetters == "abcdefghijklmnopqrstuvwxyz"

Ch(s, i) == SubSeq(s, i, i)

UpperSet == { Ch(UpperLetters, i) : i \in 1..26 }
LowerSet == { Ch(LowerLetters, i) : i \in 1..26 }
LowerOf == [c \in UpperSet |-> Ch(LowerLetters, CHOOSE i \in 1..26 : Ch(UpperLetters, i) = c)]

IsUpper(c) == c \in UpperSet
IsLower(c) == c \in LowerSet
\* [A-Za-z]
IsLetter(c) == IsUpper(c) \/ IsLower(c)
\* \s of Python's re, on the characters the model's names use
IsSpace(c) == c \in {" ", "\t"}

LowerCh(c) == IF IsUpper(c) THEN LowerOf[c] ELSE c

\* str.lower()
RECURSIVE Lower(_)
Lower(s) == IF s = "" THEN "" ELSE LowerCh(Ch(s, 1)) \o Lower(SubSeq(s, 2, Len(s)))

\* sub in s
Contains(sub, s) ==
  \E i \in 0..(Len(s) - Len(sub)) : SubSeq(s, i + 1, i + Len(sub)) = sub

(***************************************************************************)
(* src/app.py: constants and pure helpers.                                 *)
(***************************************************************************)
AVAILABLE_GENRES ==
  { "animation", "business", "classic", "comedy", "cooking", "culture",
    "documentary", "education", "entertainment", "family", "kids",
    "legislative", "lifestyle", "movies", "music", "general", "religious",
    "news", "outdoor", "relax", "series", "science", "shop", "sports",
    "travel", "weather", "xxx", "auto" }

\* clean_channel_name: drop the last three characters when they are
\* whitespace, a dot and a letter and the name is longer than three
clean_channel_name(name) ==
  IF Len(name) > 3
     /\ IsSpace(Ch(name, Len(name) - 2))
     /\ Ch(name, Len(name) - 1) = "."
     /\ IsLetter(Ch(name, Len(name)))
  THEN SubSeq(name, 1, Len(name) - 3)
  ELSE name

\* the keywords dict of assign_genre, in its declared (iteration) order
Keywords ==
  << <<"sport", "sports">>, <<"calcio", "sports">>, <<"football", "sports">>,
     <<"news", "news">>, <<"notizie", "news">>, <<"tg", "news">>,
     <<"film", "movies">>, <<"cinema", "movies">>, <<"movie", "movies">>,
     <<"bambini", "kids">>, <<"kids", "kids">>, <<"cartoni", "animation">>,
     <<"documentari", "documentary">>, <<"doc", "documentary">>,
     <<"musica", "music">>, <<"music", "music">>, <<"comedy", "comedy">>,
     <<"commedia", "comedy">>, <<"lifestyle", "lifestyle">>,
     <<"cucina", "cooking">>, <<"food", "cooking">>, <<"meteo", "weather">>,
     <<"weather", "weather">>, <<"viaggi", "travel">>, <<"travel", "travel">>,
     <<"serie", "series">>, <<"auto", "auto">>, <<"motor", "auto">>,
     <<"xxx", "xxx">>, <<"adult", "xxx">> >>

\* the genre the keyword scan falls back to
DefaultGenre_Mutant == "misc"
DefaultGenre == "general"

\* an assign_genre in which the last keyword that matches would decide
assign_genre_LastMatch_Mutant(channel_name, genre_mapping) ==
  LET clean_name == Lower(clean_channel_name(channel_name))
      hits == { i \in 1..Len(Keywords) : Contains(Keywords[i][1], clean_name) }
  IN  IF clean_name \in DOMAIN genre_mapping THEN genre_mapping[clean_name]
      ELSE IF hits # {} THEN Keywords[CHOOSE i \in hits : \A j \in hits : i >= j][2]
      ELSE DefaultGenre

\* an assign_genre that would scan the keywords before it looks the name up
assign_genre_Mutant(channel_name, genre_mapping) ==
  LET clean_name == Lower(clean_channel_name(channel_name))
      hits == { i \in 1..Len(Keywords) : Contains(Keywords[i][1], clean_name) }
  IN  IF hits # {} THEN Keywords[CHOOSE i \in hits : \A j \in hits : i <= j][2]
      ELSE IF clean_name \in DOMAIN genre_mapping THEN genre_mapping[clean_name]
      ELSE DefaultGenre

\* assign_genre: the mapping first, then the first keyword contained in the
\* cleaned lower-cased name, then the default
assign_genre(channel_name, genre_mapping) ==
  LET clean_name == Lower(clean_channel_name(channel_name))
      hits == { i \in 1..Len(Keywords) : Contains(Keywords[i][1], clean_name) }
  IN  IF clean_name \in DOMAIN genre_mapping THEN genre_mapping[clean_name]
      ELSE IF hits # {} THEN Keywords[CHOOSE i \in hits : \A j \in hits : i <= j][2]
      ELSE DefaultGenre

\* lines 274-276 of generate_channel_list: the entry's genre hint when it is
\* truthy, else assign_genre; anything outside AVAILABLE_GENRES is "general".
\* hint "" stands for an absent, None or empty 'genre'
EntryGenre_Mutant(hint, channel_name, genre_mapping) ==
  IF hint # "" THEN hint ELSE assign_genre(channel_name, genre_mapping)
EntryGenre(hint, channel_name, genre_mapping) ==
  LET genre == IF hint # "" THEN hint ELSE assign_genre(channel_name, genre_mapping)
  IN  IF genre \notin AVAILABLE_GENRES THEN "general" ELSE genre


Digits == "0123456789"
DigitSet == { Ch(Digits, i) : i \in 1..10 }
IsDigit(c) == c \in DigitSet

\* re.sub(r'[^a-zA-Z0-9]', '', s)
RECURSIVE AlnumOnly(_)
AlnumOnly(s) ==
  IF s = "" THEN ""
  ELSE (IF IsLetter(Ch(s, 1)) \/ IsDigit(Ch(s, 1)) THEN Ch(s, 1) ELSE "")
       \o AlnumOnly(SubSeq(s, 2, Len(s)))

\* generate_id: the cleaned lower-cased name without its non-alphanumerics,
\* then "-<time>-<random>"; suffix k stands for the (time, random) draws of
\* one build, so two builds may produce the same ids or different ones
generate_id(name, k) ==
  AlnumOnly(Lower(clean_channel_name(name))) \o "-" \o Ch(Digits, k + 1)

\* quote_plus of one character
QuoteCh(c) ==
  IF IsLetter(c) \/ IsDigit(c) \/ c \in {"_", ".", "-", "~"} THEN c
  ELSE CASE c = " " -> "+"
         [] c = "/" -> "%2F"
         [] c = ":" -> "%3A"
         [] c = "&" -> "%26"
         [] c = "=" -> "%3D"
         [] c = "?" -> "%3F"
         [] c = "+" -> "%2B"
         [] c = "%" -> "%25"
         [] OTHER -> "%3F"

\* urllib.parse.quote_plus
RECURSIVE quote_plus(_)
quote_plus(s) ==
  IF s = "" THEN "" ELSE QuoteCh(Ch(s, 1)) \o quote_plus(SubSeq(s, 2, Len(s)))

\* the three fixed transport headers of to_meta as urlencode(...,
\* quote_via=quote_plus) renders them: the h_<name>=<value> parameters that
\* follow api_password and d
HeaderQuery ==
  "&h_user-agent=Mozilla%2F5.0+%28Windows+NT+10.0%3B+Win64%3B+x64%29+AppleWebKit%2F537.36+%28KHTML%2C+like+Gecko%29+Chrome%2F133.0.0.0+Safari%2F537.36"
  \o "&h_referer=https%3A%2F%2Fvavoo.to%2F&h_origin=https%3A%2F%2Fvavoo.to"

DefaultLogo == "https://dl.strem.io/addon-logo.png"

\* channel_icons.json (ICONS_FILE): curated outside the program, only read
Icons == [n \in {"Sky Sport"} |-> "https://icons.example/sky.png"]

\* dict.get(key, default)
DictGet(d, key, default) == IF key \in DOMAIN d THEN d[key] ELSE default

\* to_meta: the client-facing projection of one catalog record
to_meta(channel, mediaflow_url, mediaflow_psw) ==
  LET channel_name == clean_channel_name(channel.name)
      logo == DictGet(Icons, channel_name, DictGet(Icons, channel.name, DefaultLogo))
      stream_url == "https://" \o mediaflow_url \o "/proxy/hls/manifest.m3u8?"
                    \o "api_password=" \o quote_plus(mediaflow_psw)
                    \o "&d=" \o quote_plus(channel.url) \o HeaderQuery
  IN  [ id |-> "mediaflow-" \o channel.id,
        name |-> channel_name,
        genres |-> << channel.genre >>,
        logo |-> logo,
        streamInfo |-> [url |-> stream_url, title |-> channel_name] ]

(***************************************************************************)
(* Persisted documents.  A file is "ok" and holds its JSON value, or is    *)
(* "absent" (it does not exist) or "corrupt" (it exists and json.load      *)
(* fails on it); data is then a blank of the document's type.              *)
(***************************************************************************)
File(data) == [st |-> "ok", data |-> data]
NoFile(blank) == [st |-> "absent", data |-> blank]
Corrupt(blank) == [st |-> "corrupt", data |-> blank]

\* load_json_file: the document, or the default when it is missing or invalid
load_json_file(file, default) == IF file.st = "ok" THEN file.data ELSE default

\* save_json_file: what the file holds afterwards and the value returned.
\* open(..., 'w') fails and the file is as before, or the dump fails after
\* the truncation and the file no longer parses, or the write succeeds
SaveOutcomes(old, data, blank) ==
  { [file |-> File(data), ok |-> TRUE],
    [file |-> old, ok |-> FALSE],
    [file |-> Corrupt(blank), ok |-> FALSE] }

\* the empty JSON object
EmptyDict == [k \in {} |-> ""]

DefaultConfig == [mediaflow_url |-> "", mediaflow_psw |-> ""]

\* the configurations a client submits
Configs ==
  { [mediaflow_url |-> "mf.example", mediaflow_psw |-> "secret"],
    [mediaflow_url |-> "alt.example", mediaflow_psw |-> "pass word"] }

\* not config or not config["mediaflow_url"] or not config["mediaflow_psw"]
ConfigIncomplete_Mutant(config) == FALSE
ConfigIncomplete(config) ==
  config.mediaflow_url = "" \/ config.mediaflow_psw = ""

\* the headers generate_channel_list writes when headers.json is empty
DefaultHeaders ==
  [k \in {"User-Agent", "Referer", "Origin"} |->
     CASE k = "Referer" -> "https://vavoo.to/"
       [] k = "Origin" -> "https://vavoo.to"
       [] OTHER -> "Mozilla/5.0 (Windows NT 10.0; Win64; x64) AppleWebKit/537.36 (KHTML, like Gecko) Chrome/133.0.0.0 Safari/537.36"]

\* the sample entries generate_channel_list writes when the file is missing
SampleDefault ==
  << [name |-> "Rai 1 .I", url |-> "https://example.com/rai1.m3u8", genre |-> "general"],
     [name |-> "Canale 5 .I", url |-> "https://example.com/canale5.m3u8", genre |-> "general"],
     [name |-> "Sky Sport .I", url |-> "https://example.com/skysport.m3u8", genre |-> "sports"],
     [name |-> "Discovery Channel .I", url |-> "https://example.com/discovery.m3u8", genre |-> "documentary"] >>

\* raw entry lists the channel source may hold: one entry without a hint,
\* two entries of which one has a hint outside the genre set, and a list
\* with an entry that lacks its name
SampleFiles ==
  { << [name |-> "Sky Sport .I", url |-> "https://x/sky.m3u8"] >>,
    << [name |-> "tg1 news", url |-> "https://x/tg1.m3u8", genre |-> "culture"],
       [name |-> "Sky Sport .I", url |-> "https://x/sky.m3u8", genre |-> "bogus"] >>,
    << [url |-> "https://x/anon.m3u8"] >> }

\* channel['name'] and channel['url'] raise KeyError on such an entry
Malformed(entries) ==
  \E i \in 1..Len(entries) : ~({"name", "url"} \subseteq DOMAIN entries[i])

\* lines 266-291 of generate_channel_list on entries i..Len(entries):
\* the records appended to channels_data and the updated genre mapping
RECURSIVE BuildLoop(_, _, _, _, _)
BuildLoop(entries, i, genre_mapping, channels_data, sfx) ==
  IF i > Len(entries) THEN [channels_data |-> channels_data, genre_mapping |-> genre_mapping]
  ELSE LET channel == entries[i]
           clean_name == clean_channel_name(channel.name)
           icon_url == DictGet(Icons, clean_name, DefaultLogo)
           genre == EntryGenre(DictGet(channel, "genre", ""), channel.name, genre_mapping)
           channel_obj == [ id |-> generate_id(channel.name, sfx[i]),
                            name |-> channel.name,
                            url |-> channel.url,
                            genre |-> genre,
                            icon |-> icon_url ]
       IN  BuildLoop(entries, i + 1,
                     IF clean_name \in DOMAIN genre_mapping THEN genre_mapping
                     ELSE genre_mapping @@ (clean_name :> genre),
                     Append(channels_data, channel_obj), sfx)

(***************************************************************************)
(* The catalog server (src/app.py).  Two threads share the files and the   *)
(* cache: "req" is the main thread, which runs the startup build and then  *)
(* the event loop that serves one request at a time; "sched" is the daemon *)
(* thread of refresh_channels_periodically.  One step is one file access   *)
(* or one access to channel_cache.                                         *)
(***************************************************************************)
VARIABLES
  configFile,      \* config.json
  headersFile,     \* headers.json
  genresFile,      \* genres.json
  channelsFile,    \* channels_data.json
  sampleFile,      \* sample_channels.json
  channel_cache,   \* whether channel_cache has 'all_channels', and its value
  pc,              \* where each thread is
  config,          \* per thread: the local config of the running call
  genre_mapping,   \* per thread: the local genre_mapping of the build
  channels_data,   \* per thread: the local channels_data / all_channels
  ret,             \* what the main thread's last build returned
  caller,          \* what the main thread's build was called from
  response,        \* what the last request was answered with
  fresh,           \* history: a build returned True and nothing wrote config or snapshot since
  stable,          \* history: fresh at the start of the running get, and since
  lastGet,         \* history: what get_all_channels last returned
  wfail,           \* history: a write of the main thread's running build failed
  events,          \* history: how many writes failed and how often the source changed
  \* the playlist exporter's pagination (src/m3u8_vavoo.py)
  cursor,          \* get_channel_list: the cursor of the next call
  all_items,       \* get_channel_list: the items accumulated
  fpc,             \* "loop" before an upstream call, "done" once returned
  pages,           \* history: the non-empty pages the upstream has sent
  calls,           \* history: the upstream calls made
  stopped,         \* history: why the loop ended
  sent,            \* history: the cursor sent with each upstream call
  \* pure functions applied to drawn inputs
  op,              \* the function applied, "none" before
  inName, inMap, inHint,           \* a channel name, a genre mapping, a genre hint
  inType, inId, inSearch, inList,  \* a catalog request and what get_all_channels gave
  outGenre,        \* the genre that came out
  outMetas,        \* the metas that came out
  pOp,             \* playlist exporter: which function was applied
  pName,           \* a channel name
  pLogos,          \* channel_icons.json, as its (key, url) pairs in order
  pCats,           \* category_keywords.json, as its (category, keywords) pairs in order
  pItems,          \* the items of the fetched channel list
  pFilters,        \* channel_filters.json
  pRemove,         \* channel_remove.json
  pSignature,      \* the signature that get_auth_signature gave
  pOut,            \* the string that came out
  pRecords         \* the records generate_m3u wrote, in order

serverVars ==
  << configFile, headersFile, genresFile, channelsFile, sampleFile, channel_cache,
     pc, config, genre_mapping, channels_data, ret, caller, response,
     fresh, stable, lastGet, wfail, events >>
fetchVars == << cursor, all_items, fpc, pages, calls, stopped, sent >>
pureVars == << op, inName, inMap, inHint, inType, inId, inSearch, inList, outGenre, outMetas >>
playVars == << pOp, pName, pLogos, pCats, pItems, pFilters, pRemove, pSignature, pOut, pRecords >>
vars == << serverVars, fetchVars, pureVars, playVars >>

\* one call of save_json_file: its outcomes within the failure budget
Outcomes(old, data, blank) ==
  { o \in SaveOutcomes(old, data, blank) : o.ok \/ events < MaxEvents }
Failed(o) == IF o.ok THEN events ELSE events + 1

Threads == {"req", "sched"}
NoSlot == [present |-> FALSE, all_channels |-> << >>]
Slot(v) == [present |-> TRUE, all_channels |-> v]
NoGet == [some |-> FALSE, value |-> << >>]
BuildLabels == {"bConfig", "bLoad", "bSample", "bSaveGenres", "bSaveChannels", "bTest", "bDel"}
GetLabels == {"gTest", "gRead", "gConfig", "gChannels", "gMemo"}

\* what get_all_channels computes on a miss from the persisted documents
Projection(channels, cfg) ==
  IF ConfigIncomplete(cfg) THEN << >>
  ELSE [i \in 1..Len(channels) |-> to_meta(channels[i], cfg.mediaflow_url, cfg.mediaflow_psw)]

Persisted ==
  Projection(load_json_file(channelsFile, << >>), load_json_file(configFile, DefaultConfig))

ServerInit ==
  /\ configFile = NoFile(DefaultConfig)
  /\ headersFile = NoFile(EmptyDict)
  /\ genresFile = NoFile(EmptyDict)
  /\ channelsFile = NoFile(<< >>)
  /\ sampleFile \in {File(f) : f \in SampleFiles} \cup {NoFile(<< >>)}
  /\ channel_cache = NoSlot
  /\ pc = [t \in Threads |-> IF t = "req" THEN "bConfig" ELSE "notStarted"]
  /\ config = [t \in Threads |-> DefaultConfig]
  /\ genre_mapping = [t \in Threads |-> EmptyDict]
  /\ channels_data = [t \in Threads |-> << >>]
  /\ ret = FALSE
  /\ caller = "startup"
  /\ response = "none"
 
  /\ fresh = FALSE
  /\ stable = FALSE
  /\ lastGet = NoGet
  /\ wfail = FALSE
  /\ events = 0

FetchIdle ==
  /\ cursor = 0 /\ all_items = << >> /\ fpc = "off" /\ pages = << >> /\ calls = 0
  /\ stopped = "no" /\ sent = << >>
PureIdle ==
  /\ op = "off" /\ inName = "" /\ inMap = EmptyDict /\ inHint = ""
  /\ inType = "" /\ inId = "" /\ inSearch = "" /\ inList = << >>
  /\ outGenre = "" /\ outMetas = << >>
PlayIdle ==
  /\ pOp = "off" /\ pName = "" /\ pLogos = << >> /\ pCats = << >>
  /\ pItems = << >> /\ pFilters = << >> /\ pRemove = << >>
  /\ pSignature = ""
  /\ pOut = "" /\ pRecords = << >>
ServerIdle ==
  /\ configFile = NoFile(DefaultConfig) /\ headersFile = NoFile(EmptyDict)
  /\ genresFile = NoFile(EmptyDict) /\ channelsFile = NoFile(<< >>)
  /\ sampleFile = NoFile(<< >>) /\ channel_cache = NoSlot
  /\ pc = [t \in Threads |-> "off"]
  /\ config = [t \in Threads |-> DefaultConfig]
  /\ genre_mapping = [t \in Threads |-> EmptyDict]
  /\ channels_data = [t \in Threads |-> << >>]
  /\ ret = FALSE
  /\ caller = "none" /\ response = "none"
  /\ fresh = FALSE /\ stable = FALSE /\ lastGet = NoGet /\ wfail = FALSE /\ events = 0

Init == ServerInit /\ FetchIdle /\ PureIdle /\ PlayIdle

\* the locals of thread t are dead once its call has returned
DropLocals(t) ==
  /\ config' = [config EXCEPT ![t] = DefaultConfig]
  /\ genre_mapping' = [genre_mapping EXCEPT ![t] = EmptyDict]
  /\ channels_data' = [channels_data EXCEPT ![t] = << >>]

\* generate_channel_list returns value v to the code that called it:
\* refresh_channels_periodically goes to sleep (line 312); __main__ starts
\* the refresh thread and the server (lines 497-501); save_configuration
\* answers {"success": True} (line 417) and manifest_with_params the
\* manifest (line 430), whatever v is
BuildReturns(t, v) ==
  /\ ret' = IF t = "req" THEN v ELSE ret
  /\ DropLocals(t)
  /\ IF t = "sched"
     THEN /\ pc' = [pc EXCEPT ![t] = "sleep"]
          /\ UNCHANGED << caller, response >>
     ELSE /\ pc' = IF caller = "startup"
                   THEN [pc EXCEPT !["req"] = "idle", !["sched"] = "cycle"]
                   ELSE [pc EXCEPT !["req"] = "idle"]
          /\ response' = CASE caller = "save" -> "success"
                           [] caller = "manifest" -> "manifest"
                           [] OTHER -> response
          /\ caller' = "none"

\* generate_channel_list raises: nothing catches it in the refresh thread,
\* which ends (lines 309-312), nor in __main__, where the process ends
\* before the thread is started (line 494); a route answers 500
BuildRaises(t) ==
  /\ DropLocals(t)
  /\ UNCHANGED ret
  /\ IF t = "sched"
     THEN /\ pc' = [pc EXCEPT ![t] = "crashed"]
          /\ UNCHANGED << caller, response >>
     ELSE /\ pc' = [pc EXCEPT ![t] = IF caller = "startup" THEN "exited" ELSE "idle"]
          /\ response' = IF caller = "startup" THEN "exited" ELSE "error500"
          /\ caller' = "none"

\* line 231: config = load_config()
BConfig(t) ==
  /\ pc[t] = "bConfig"
  /\ config' = [config EXCEPT ![t] = load_json_file(configFile, DefaultConfig)]
  /\ pc' = [pc EXCEPT ![t] = "bLoad"]
  /\ UNCHANGED << configFile, headersFile, genresFile, channelsFile, sampleFile,
                  channel_cache, genre_mapping, channels_data, ret, caller, response,
                  fresh, stable, lastGet, events >>
  /\ UNCHANGED << wfail, fetchVars, pureVars, playVars >>

\* lines 232-250: load headers, genre mapping and icons; return False on an
\* incomplete config; else write the default headers when there are none.
\* The headers document is read and written by builds only, always with the
\* same content, so its read and its write are one step
BLoad(t) ==
  /\ pc[t] = "bLoad"
  /\ IF ConfigIncomplete(config[t])
     THEN /\ BuildReturns(t, FALSE)
          /\ UNCHANGED << headersFile, fresh, events >>
     ELSE /\ genre_mapping' = [genre_mapping EXCEPT ![t] = load_json_file(genresFile, EmptyDict)]
          /\ IF load_json_file(headersFile, EmptyDict) = EmptyDict
             THEN \E o \in Outcomes(headersFile, DefaultHeaders, EmptyDict) :
                    headersFile' = o.file /\ events' = Failed(o)
             ELSE UNCHANGED << headersFile, events >>
          /\ pc' = [pc EXCEPT ![t] = "bSample"]
          /\ config' = [config EXCEPT ![t] = DefaultConfig]
          /\ UNCHANGED << channels_data, ret, caller, response, fresh >>
  /\ UNCHANGED << configFile, genresFile, channelsFile, sampleFile, channel_cache,
                  stable, lastGet >>
  /\ UNCHANGED << wfail, fetchVars, pureVars, playVars >>

\* lines 253-291: write the sample entries when the file does not exist,
\* load them, and run the loop over them (local computation)
BSample(t) ==
  /\ pc[t] = "bSample"
  /\ \E o \in (IF sampleFile.st = "absent" THEN Outcomes(sampleFile, SampleDefault, << >>)
               ELSE {[file |-> sampleFile, ok |-> TRUE]}) :
       /\ sampleFile' = o.file
       /\ events' = Failed(o)
       /\ LET sample_channels == load_json_file(o.file, << >>)
          IN  IF Malformed(sample_channels)
              THEN BuildRaises(t) /\ UNCHANGED fresh
              ELSE \E k \in 1..MaxSuffix :
                     LET sfx == [i \in 1..Len(sample_channels) |-> k]
                         r == BuildLoop(sample_channels, 1, genre_mapping[t], << >>, sfx)
                     IN  /\ genre_mapping' = [genre_mapping EXCEPT ![t] = r.genre_mapping]
                         /\ channels_data' = [channels_data EXCEPT ![t] = r.channels_data]
                         /\ pc' = [pc EXCEPT ![t] = "bSaveGenres"]
                         /\ UNCHANGED << config, ret, caller, response, fresh >>
  /\ UNCHANGED << configFile, headersFile, genresFile, channelsFile, channel_cache,
                  stable, lastGet >>
  /\ UNCHANGED << wfail, fetchVars, pureVars, playVars >>

\* line 294: save_json_file(GENRE_FILE, genre_mapping), result not looked at
BSaveGenres(t) ==
  /\ pc[t] = "bSaveGenres"
  /\ \E o \in Outcomes(genresFile, genre_mapping[t], EmptyDict) :
       /\ genresFile' = o.file
       /\ events' = Failed(o)
       /\ wfail' = (wfail \/ (t = "req" /\ ~o.ok))
  /\ pc' = [pc EXCEPT ![t] = "bSaveChannels"]
  /\ UNCHANGED << configFile, headersFile, channelsFile, sampleFile, channel_cache,
                  config, genre_mapping, channels_data, ret, caller, response,
                  fresh, stable, lastGet >>
  /\ UNCHANGED << fetchVars, pureVars, playVars >>

\* lines 297, 303-305: save_json_file(CHANNELS_FILE, channels_data); on
\* failure return False
BSaveChannels(t) ==
  /\ pc[t] = "bSaveChannels"
  /\ \E o \in Outcomes(channelsFile, channels_data[t], << >>) :
       /\ channelsFile' = o.file
       /\ events' = Failed(o)
       /\ wfail' = (wfail \/ (t = "req" /\ ~o.ok))
       /\ stable' = FALSE
       /\ fresh' = FALSE
       /\ IF o.ok
          THEN /\ pc' = [pc EXCEPT ![t] = "bTest"]
               /\ UNCHANGED << config, genre_mapping, channels_data, ret, caller, response >>
          ELSE BuildReturns(t, FALSE)
  /\ UNCHANGED << configFile, headersFile, genresFile, sampleFile, channel_cache, lastGet >>
  /\ UNCHANGED << fetchVars, pureVars, playVars >>

\* line 300: if 'all_channels' in channel_cache; line 302 when it is not
BTest(t) ==
  /\ pc[t] = "bTest"
  /\ lastGet' = NoGet
  /\ IF channel_cache.present
     THEN /\ pc' = [pc EXCEPT ![t] = "bDel"]
          /\ UNCHANGED << config, genre_mapping, channels_data, ret, caller, response, fresh >>
     ELSE BuildReturns(t, TRUE) /\ fresh' = TRUE
  /\ UNCHANGED << configFile, headersFile, genresFile, channelsFile, sampleFile,
                  channel_cache, stable, events >>
  /\ UNCHANGED << wfail, fetchVars, pureVars, playVars >>

\* lines 301-302: del channel_cache['all_channels'], which raises KeyError
\* when the slot is gone by now; return True
BDel(t) ==
  /\ pc[t] = "bDel"
  /\ lastGet' = NoGet
  /\ IF channel_cache.present
     THEN /\ channel_cache' = NoSlot
          /\ BuildReturns(t, TRUE)
          /\ fresh' = TRUE
     ELSE /\ BuildRaises(t)
          /\ UNCHANGED << channel_cache, fresh >>
  /\ UNCHANGED << configFile, headersFile, genresFile, channelsFile, sampleFile,
                  stable, events >>
  /\ UNCHANGED << wfail, fetchVars, pureVars, playVars >>

\* lines 309-311: the refresh loop calls generate_channel_list
SchedCycle ==
  /\ pc["sched"] = "cycle"
  /\ pc' = [pc EXCEPT !["sched"] = "bConfig"]
  /\ UNCHANGED << configFile, headersFile, genresFile, channelsFile, sampleFile,
                  channel_cache, config, genre_mapping, channels_data, ret, caller,
                  response, fresh, stable, lastGet, events >>
  /\ UNCHANGED << wfail, fetchVars, pureVars, playVars >>

\* line 312: time.sleep(FETCH_INTERVAL) returns and the loop goes round
SchedSleep ==
  /\ pc["sched"] = "sleep"
  /\ pc' = [pc EXCEPT !["sched"] = "cycle"]
  /\ UNCHANGED << configFile, headersFile, genresFile, channelsFile, sampleFile,
                  channel_cache, config, genre_mapping, channels_data, ret, caller,
                  response, fresh, stable, lastGet, events >>
  /\ UNCHANGED << wfail, fetchVars, pureVars, playVars >>

\* get_all_channels returns value v to its route (catalog, meta or stream)
GetReturns(v) ==
  /\ lastGet' = [some |-> TRUE, value |-> v]
  /\ response' = "metas"
  /\ pc' = [pc EXCEPT !["req"] = "idle"]
  /\ DropLocals("req")

\* a catalog, meta or stream request arrives (lines 445, 464, 478)
ReqGet ==
  /\ pc["req"] = "idle"
  /\ pc' = [pc EXCEPT !["req"] = "gTest"]
  /\ response' = "none"
  /\ wfail' = FALSE
  /\ stable' = (fresh /\ pc["sched"] \notin BuildLabels)
  /\ UNCHANGED << configFile, headersFile, genresFile, channelsFile, sampleFile,
                  channel_cache, config, genre_mapping, channels_data, ret, caller,
                  fresh, lastGet, events >>
  /\ UNCHANGED << fetchVars, pureVars, playVars >>

\* line 209: if 'all_channels' in channel_cache
GTest ==
  /\ pc["req"] = "gTest"
  /\ pc' = [pc EXCEPT !["req"] = IF channel_cache.present THEN "gRead" ELSE "gConfig"]
  /\ UNCHANGED << configFile, headersFile, genresFile, channelsFile, sampleFile,
                  channel_cache, config, genre_mapping, channels_data, ret, caller,
                  response, fresh, stable, lastGet, events >>
  /\ UNCHANGED << wfail, fetchVars, pureVars, playVars >>

\* line 210: return channel_cache['all_channels'], which raises KeyError
\* when the slot has been deleted since the test
GRead ==
  /\ pc["req"] = "gRead"
  /\ IF channel_cache.present
     THEN GetReturns(channel_cache.all_channels)
     ELSE /\ response' = "error500"
          /\ pc' = [pc EXCEPT !["req"] = "idle"]
          /\ UNCHANGED << lastGet, config, genre_mapping, channels_data >>
  /\ UNCHANGED << configFile, headersFile, genresFile, channelsFile, sampleFile,
                  channel_cache, ret, caller, fresh, stable, events >>
  /\ UNCHANGED << wfail, fetchVars, pureVars, playVars >>

\* lines 212-214: load the config; an incomplete one gives []
GConfig ==
  /\ pc["req"] = "gConfig"
  /\ LET c == load_json_file(configFile, DefaultConfig)
     IN  IF ConfigIncomplete(c)
         THEN GetReturns(<< >>)
         ELSE /\ config' = [config EXCEPT !["req"] = c]
              /\ pc' = [pc EXCEPT !["req"] = "gChannels"]
              /\ UNCHANGED << genre_mapping, channels_data, response, lastGet >>
  /\ UNCHANGED << configFile, headersFile, genresFile, channelsFile, sampleFile,
                  channel_cache, ret, caller, fresh, stable, events >>
  /\ UNCHANGED << wfail, fetchVars, pureVars, playVars >>

\* variant of GChannels that memoizes the empty list of an absent snapshot
GChannels_Mutant ==
  /\ pc["req"] = "gChannels"
  /\ LET data == load_json_file(channelsFile, << >>)
     IN  IF data = << >>
         THEN /\ channel_cache' = Slot(<< >>)
              /\ GetReturns(<< >>)
         ELSE /\ channels_data' = [channels_data EXCEPT !["req"] =
                   [i \in 1..Len(data) |->
                      to_meta(data[i], config["req"].mediaflow_url, config["req"].mediaflow_psw)]]
              /\ pc' = [pc EXCEPT !["req"] = "gMemo"]
              /\ UNCHANGED << config, genre_mapping, response, lastGet, channel_cache >>
  /\ UNCHANGED << configFile, headersFile, genresFile, channelsFile, sampleFile,
                  ret, caller, fresh, stable, events >>
  /\ UNCHANGED << wfail, fetchVars, pureVars, playVars >>

\* lines 216-223: load the snapshot; an absent or empty one gives [];
\* else all_channels is to_meta of each record
GChannels ==
  /\ pc["req"] = "gChannels"
  /\ LET data == load_json_file(channelsFile, << >>)
     IN  IF data = << >>
         THEN GetReturns(<< >>)
         ELSE /\ channels_data' = [channels_data EXCEPT !["req"] =
                   [i \in 1..Len(data) |->
                      to_meta(data[i], config["req"].mediaflow_url, config["req"].mediaflow_psw)]]
              /\ pc' = [pc EXCEPT !["req"] = "gMemo"]
              /\ UNCHANGED << config, genre_mapping, response, lastGet >>
  /\ UNCHANGED << configFile, headersFile, genresFile, channelsFile, sampleFile,
                  channel_cache, ret, caller, fresh, stable, events >>
  /\ UNCHANGED << wfail, fetchVars, pureVars, playVars >>

\* lines 225-226: channel_cache['all_channels'] = all_channels; return it
GMemo ==
  /\ pc["req"] = "gMemo"
  /\ channel_cache' = Slot(channels_data["req"])
  /\ GetReturns(channels_data["req"])
  /\ UNCHANGED << configFile, headersFile, genresFile, channelsFile, sampleFile,
                  ret, caller, fresh, stable, events >>
  /\ UNCHANGED << wfail, fetchVars, pureVars, playVars >>

\* POST /save-config (lines 409-419): 400 on an empty field; save_config,
\* then the build; 500 when the config could not be saved
ReqSave ==
  /\ pc["req"] = "idle"
  /\ wfail' = FALSE
  /\ \E c \in Configs \cup {DefaultConfig} :
       IF ConfigIncomplete(c)
       THEN /\ response' = "error400"
            /\ UNCHANGED << configFile, pc, caller, fresh, stable, events >>
       ELSE \E o \in Outcomes(configFile, c, DefaultConfig) :
              /\ configFile' = o.file
              /\ events' = Failed(o)
                     /\ fresh' = FALSE
              /\ stable' = FALSE
              /\ IF o.ok
                 THEN /\ pc' = [pc EXCEPT !["req"] = "bConfig"]
                      /\ caller' = "save"
                      /\ response' = "none"
                 ELSE /\ response' = "error500"
                      /\ UNCHANGED << pc, caller >>
  /\ UNCHANGED << headersFile, genresFile, channelsFile, sampleFile, channel_cache,
                  config, genre_mapping, channels_data, ret, lastGet >>
  /\ UNCHANGED << fetchVars, pureVars, playVars >>

\* GET /mfp/{url}/psw/{psw}/manifest.json (lines 422-430): save the config,
\* not looking at the result, then the build
ReqManifest ==
  /\ pc["req"] = "idle"
  /\ wfail' = FALSE
  /\ \E c \in Configs : \E o \in Outcomes(configFile, c, DefaultConfig) :
       /\ configFile' = o.file
       /\ events' = Failed(o)
       /\ fresh' = FALSE
       /\ stable' = FALSE
       /\ pc' = [pc EXCEPT !["req"] = "bConfig"]
       /\ caller' = "manifest"
       /\ response' = "none"
  /\ UNCHANGED << headersFile, genresFile, channelsFile, sampleFile, channel_cache,
                  config, genre_mapping, channels_data, ret, lastGet >>
  /\ UNCHANGED << fetchVars, pureVars, playVars >>

\* the channel source changes what sample_channels.json holds
SourceUpdate ==
  /\ sampleFile.st = "ok"
  /\ pc["req"] # "exited"
  /\ events < MaxEvents
  /\ events' = events + 1
  /\ \E f \in SampleFiles : f # sampleFile.data /\ sampleFile' = File(f)
  /\ UNCHANGED << configFile, headersFile, genresFile, channelsFile, channel_cache,
                  pc, config, genre_mapping, channels_data, ret, caller, response,
                  fresh, stable, lastGet >>
  /\ UNCHANGED << wfail, fetchVars, pureVars, playVars >>

Next ==
  \/ \E t \in Threads : BConfig(t)
  \/ \E t \in Threads : BLoad(t)
  \/ \E t \in Threads : BSample(t)
  \/ \E t \in Threads : BSaveGenres(t)
  \/ \E t \in Threads : BSaveChannels(t)
  \/ \E t \in Threads : BTest(t)
  \/ \E t \in Threads : BDel(t)
  \/ SchedCycle \/ SchedSleep
  \/ ReqGet \/ GTest \/ GRead \/ GConfig \/ GChannels \/ GMemo
  \/ ReqSave \/ ReqManifest
  \/ SourceUpdate

Spec == Init /\ [][Next]_vars

(***************************************************************************)
(* The playlist exporter's pagination: get_channel_list of                 *)
(* src/m3u8_vavoo.py, against an upstream that answers each call with a    *)
(* page or fails.                                                          *)
(***************************************************************************)
\* what an upstream item may be
Items == {"a", "b"}

\* the non-empty pages the upstream may send
Pages == UNION { [1..n -> Items] : n \in 1..MaxPage }

\* line 120: all_items.extend(items)
Extend(list, items) == list \o items

\* a cursor that counts pages instead of items
Advance_Mutant(c, items) == c + 1

\* line 121: cursor += len(items)
Advance(c, items) == c + Len(items)

\* a fetch that would drop what it accumulated when a call fails
OnFailure_Mutant(list) == << >>

\* lines 123-125: the except branch leaves what was accumulated
OnFailure(list) == list

\* lines 98-113: the request body carries "cursor": cursor; the cursors
\* sent so far, one for each call
Sent(log, c) == Append(log, c)

FetchInit ==
  /\ cursor = 0 /\ all_items = << >> /\ fpc = "loop" /\ pages = << >> /\ calls = 0
  /\ stopped = "no" /\ sent = << >>
  /\ ServerIdle /\ PureIdle /\ PlayIdle

\* lines 112-121: the call succeeds with a non-empty page
FetchPage ==
  /\ fpc = "loop"
  /\ calls + 1 < MaxCalls
  /\ \E items \in Pages :
       /\ all_items' = Extend(all_items, items)
       /\ cursor' = Advance(cursor, items)
       /\ pages' = Append(pages, items)
  /\ calls' = calls + 1
  /\ sent' = Sent(sent, cursor)
  /\ UNCHANGED << fpc, stopped >>
  /\ UNCHANGED << serverVars, pureVars, playVars >>

\* a loop that goes round again on an empty page
OnEmpty_Mutant == "loop"

\* lines 116-117: if not items: break
OnEmpty == "done"

\* lines 116-118: the call succeeds with no items; break, return (line 127)
FetchEmpty ==
  /\ fpc = "loop"
  /\ calls < MaxCalls
  /\ calls' = calls + 1
  /\ sent' = Sent(sent, cursor)
  /\ fpc' = OnEmpty
  /\ stopped' = IF OnEmpty = "done" THEN "empty" ELSE stopped
  /\ UNCHANGED << cursor, all_items, pages >>
  /\ UNCHANGED << serverVars, pureVars, playVars >>

\* lines 123-125: the call, raise_for_status or json() raises; break, return
FetchFail ==
  /\ fpc = "loop"
  /\ calls < MaxCalls
  /\ calls' = calls + 1
  /\ sent' = Sent(sent, cursor)
  /\ fpc' = "done"
  /\ stopped' = "failed"
  /\ all_items' = OnFailure(all_items)
  /\ UNCHANGED << cursor, pages >>
  /\ UNCHANGED << serverVars, pureVars, playVars >>

FetchNext == FetchPage \/ FetchEmpty \/ FetchFail

FetchSpec == FetchInit /\ [][FetchNext]_vars

\* the loop of get_channel_list is sequential code and each of its calls
\* returns or raises: it goes round as long as it has not left the loop
FetchFairSpec == FetchInit /\ [][FetchNext]_vars /\ WF_vars(FetchNext)

(***************************************************************************)
(* The classifier of src/app.py applied to drawn inputs.                   *)
(***************************************************************************)
Names ==
  { "Sky Sport .I", "Rai 1 .I", "Sport News .S", "TG1", "Cinema .b", "xy .", "a .c", "" }

\* genre mappings genres.json may hold: none, one that a build wrote, one
\* with lower-case keys, and one edited by hand with a value outside the set
GenreMaps ==
  { EmptyDict,
    "Sky Sport" :> "sports",
    ("rai 1" :> "news") @@ ("sky sport" :> "kids"),
    ("rai 1" :> "bogus") @@ ("tg1" :> "") }

Hints == { "", "sports", "news", "bogus", "Sports" }

ClassifyInit ==
  /\ op = "none"
  /\ inName \in Names /\ inMap \in GenreMaps /\ inHint \in Hints
  /\ inType = "" /\ inId = "" /\ inSearch = "" /\ inList = << >>
  /\ outGenre = "" /\ outMetas = << >>
  /\ ServerIdle /\ FetchIdle /\ PlayIdle

\* assign_genre(inName, inMap)
ApplyAssign ==
  /\ op = "none"
  /\ op' = "assign"
  /\ outGenre' = assign_genre(inName, inMap)
  /\ UNCHANGED << inName, inMap, inHint, inType, inId, inSearch, inList, outMetas >>
  /\ UNCHANGED << serverVars, fetchVars, playVars >>

\* the genre generate_channel_list gives the entry {name: inName, genre: inHint}
ApplyEntryGenre ==
  /\ op = "none"
  /\ op' = "entry"
  /\ outGenre' = EntryGenre(inHint, inName, inMap)
  /\ UNCHANGED << inName, inMap, inHint, inType, inId, inSearch, inList, outMetas >>
  /\ UNCHANGED << serverVars, fetchVars, playVars >>

ClassifyNext == ApplyAssign \/ ApplyEntryGenre

ClassifySpec == ClassifyInit /\ [][ClassifyNext]_vars

(***************************************************************************)
(* The catalog route of src/app.py applied to drawn requests.              *)
(***************************************************************************)
\* str.startswith
StartsWith(s, prefix) == Len(s) >= Len(prefix) /\ SubSeq(s, 1, Len(prefix)) = prefix

\* s up to its first "-", or all of s
RECURSIVE UpToDash(_)
UpToDash(s) ==
  IF s = "" \/ Ch(s, 1) = "-" THEN "" ELSE Ch(s, 1) \o UpToDash(SubSeq(s, 2, Len(s)))

\* id.split("-")[1] of an id that starts with "mediaflow-"
Category(id) == UpToDash(SubSeq(id, Len("mediaflow-") + 1, Len(id)))

\* x in list
InList(x, list) == \E i \in 1..Len(list) : list[i] = x

\* line 448: the channels of the category
ByCategory(category, all_channels) ==
  SelectSeq(all_channels, LAMBDA c : InList(category, c.genres))

\* lines 452-453: the channels whose name contains the lower-cased search
BySearch(search, all_channels) ==
  SelectSeq(all_channels, LAMBDA c : Contains(Lower(search), Lower(c.name)))

\* catalog (lines 439-456), given what get_all_channels returned
catalog(type, id, search, all_channels) ==
  IF type # "tv" \/ ~StartsWith(id, "mediaflow-") THEN << >>
  ELSE IF search # "" THEN BySearch(search, all_channels)
  ELSE ByCategory(Category(id), all_channels)

\* catalog records and what get_all_channels makes of them
CatalogRecords ==
  << [id |-> "skysport-1", name |-> "Sky Sport .I", url |-> "https://x/sky.m3u8", genre |-> "sports"],
     [id |-> "skynews-1", name |-> "Sky News .I", url |-> "https://x/news.m3u8", genre |-> "news"],
     [id |-> "rai1-1", name |-> "Rai 1 .I", url |-> "https://x/rai1.m3u8", genre |-> "general"] >>

ChannelLists ==
  { Projection(SubSeq(CatalogRecords, i, j), [mediaflow_url |-> "mf.example", mediaflow_psw |-> "secret"]) :
      i \in 1..2, j \in 0..3 }

CatalogInit ==
  /\ op = "none"
  /\ inType \in {"tv", "movie"}
  /\ inId \in {"mediaflow-sports", "mediaflow-news", "mediaflow-general", "mediaflow-kids", "other-sports"}
  /\ inSearch \in {"", "sky", "SKY", "rai", "zz"}
  /\ inList \in ChannelLists
  /\ inName = "" /\ inMap = EmptyDict /\ inHint = ""
  /\ outGenre = "" /\ outMetas = << >>
  /\ ServerIdle /\ FetchIdle /\ PlayIdle

ApplyCatalog ==
  /\ op = "none"
  /\ op' = "catalog"
  /\ outMetas' = catalog(inType, inId, inSearch, inList)
  /\ UNCHANGED << inName, inMap, inHint, inType, inId, inSearch, inList, outGenre >>
  /\ UNCHANGED << serverVars, fetchVars, playVars >>

CatalogNext == ApplyCatalog

CatalogSpec == CatalogInit /\ [][CatalogNext]_vars

(***************************************************************************)
(* src/m3u8_vavoo.py: the playlist exporter's pure functions.  A JSON      *)
(* object is the sequence of its (key, value) pairs, in the order dict     *)
(* iteration gives them.                                                   *)
(***************************************************************************)
UpperOf == [c \in LowerSet |-> Ch(UpperLetters, CHOOSE i \in 1..26 : Ch(LowerLetters, i) = c)]
UpperCh(c) == IF IsLower(c) THEN UpperOf[c] ELSE c

\* str.rstrip(), str.lstrip(), str.strip()
RECURSIVE RStrip(_)
RStrip(s) ==
  IF s # "" /\ IsSpace(Ch(s, Len(s))) THEN RStrip(SubSeq(s, 1, Len(s) - 1)) ELSE s
RECURSIVE LStrip(_)
LStrip(s) ==
  IF s # "" /\ IsSpace(Ch(s, 1)) THEN LStrip(SubSeq(s, 2, Len(s))) ELSE s
Strip(s) == LStrip(RStrip(s))

\* the name ends in ".c" or ".s", in either case
EndsDotCS(s) ==
  /\ Len(s) >= 2
  /\ Ch(s, Len(s) - 1) = "."
  /\ LowerCh(Ch(s, Len(s))) \in {"c", "s"}

\* re.sub(r"\s+\.[cs]$", "", s, flags=re.IGNORECASE): the whole run of
\* whitespace before the final ".c"/".s" goes with it (names hold no line break)
SubMarker_Mutant(s) ==
  IF Len(s) >= 3 /\ Ch(s, Len(s) - 1) = "." /\ IsLetter(Ch(s, Len(s)))
     /\ IsSpace(Ch(s, Len(s) - 2))
  THEN RStrip(SubSeq(s, 1, Len(s) - 2))
  ELSE s
SubMarker(s) ==
  IF EndsDotCS(s) /\ Len(s) >= 3 /\ IsSpace(Ch(s, Len(s) - 2))
  THEN RStrip(SubSeq(s, 1, Len(s) - 2))
  ELSE s

\* normalize_channel_name
normalize_channel_name(channel_name) == Lower(Strip(SubMarker(channel_name)))

\* the category a name falls in when no keyword matches
DefaultCategory_Mutant == "OTHER"
DefaultCategory == "ALTRI"

\* any(keyword.lower() in lower_name for keyword in keywords)
AnyKeyword(keywords, lower_name) ==
  \E k \in 1..Len(keywords) : Contains(Lower(keywords[k]), lower_name)

\* get_category: the first category, in iteration order, one of whose
\* keywords is in the lower-cased name
get_category(channel_name, category_keywords) ==
  LET lower_name == Lower(channel_name)
      hits == { i \in 1..Len(category_keywords) :
                  AnyKeyword(category_keywords[i][2], lower_name) }
  IN  IF hits # {} THEN category_keywords[CHOOSE i \in hits : \A j \in hits : i <= j][1]
      ELSE DefaultCategory

\* str.replace(" ", "+")
RECURSIVE SpacesToPlus(_)
SpacesToPlus(s) ==
  IF s = "" THEN ""
  ELSE (IF Ch(s, 1) = " " THEN "+" ELSE Ch(s, 1)) \o SpacesToPlus(SubSeq(s, 2, Len(s)))

\* lines 70-74: the placeholder URL
Placeholder(channel_name) ==
  "https://placehold.co/400x400?text=" \o SpacesToPlus(Strip(SubMarker(channel_name)))
    \o "&.png"

\* lines 61 and 66: a key matches when it normalizes to the name, or holds
\* it, or is held by it
LogoMatch(normalized_name, logo_channel) ==
  LET normalized_logo_channel == normalize_channel_name(logo_channel)
  IN  \/ normalized_name = normalized_logo_channel
      \/ Contains(normalized_name, normalized_logo_channel)
      \/ Contains(normalized_logo_channel, normalized_name)

\* get_logo_url: the URL of the first key, in iteration order, that matches;
\* the placeholder when none does
get_logo_url(channel_name, channel_logos) ==
  LET normalized_name == normalize_channel_name(channel_name)
      hits == { i \in 1..Len(channel_logos) :
                  LogoMatch(normalized_name, channel_logos[i][1]) }
  IN  IF hits # {} THEN channel_logos[CHOOSE i \in hits : \A j \in hits : i <= j][2]
      ELSE Placeholder(channel_name)

\* re.sub(r"\.[cs]$", "", s, flags=re.IGNORECASE)
SubDotCS(s) == IF EndsDotCS(s) THEN SubSeq(s, 1, Len(s) - 2) ELSE s

\* the end of the first word of a string that starts with no whitespace
WordEnd(t) ==
  CHOOSE n \in 1..Len(t) :
    /\ n = Len(t) \/ IsSpace(Ch(t, n + 1))
    /\ \A m \in 1..n : ~IsSpace(Ch(t, m))

\* str.split()
RECURSIVE Words(_)
Words(s) ==
  LET t == LStrip(s)
  IN  IF t = "" THEN << >>
      ELSE << SubSeq(t, 1, WordEnd(t)) >> \o Words(SubSeq(t, WordEnd(t) + 1, Len(t)))

\* str.capitalize()
Capitalize(w) == UpperCh(Ch(w, 1)) \o Lower(SubSeq(w, 2, Len(w)))

\* " ".join(word.capitalize() for word in words)
RECURSIVE JoinCapitalized(_)
JoinCapitalized(words) ==
  IF Len(words) = 0 THEN ""
  ELSE IF Len(words) = 1 THEN Capitalize(words[1])
  ELSE Capitalize(words[1]) \o " " \o JoinCapitalized(Tail(words))

\* sanitize_tvg_id
sanitize_tvg_id(channel_name) == JoinCapitalized(Words(Strip(SubDotCS(channel_name))))

\* line 150: item.get("name", "Unknown"); line 161: item.get("url"), where ""
\* stands for a missing, null or empty url
ItemName(item) == IF "name" \in DOMAIN item THEN item.name ELSE "Unknown"
ItemUrl(item) == IF "url" \in DOMAIN item THEN item.url ELSE ""

\* a test of the words that would compare case-sensitively
AnyWord_Mutant(words, name) ==
  \E k \in 1..Len(words) : Contains(words[k], name)

\* any(word.lower() in name.lower() for word in words)
AnyWord(words, name) ==
  \E k \in 1..Len(words) : Contains(Lower(words[k]), Lower(name))

\* lines 149-179: the loop of generate_m3u from item i on; f is what was
\* written so far
\* a directive that carries the signature of the run
KeyDirective_Mutant(signature) == signature

\* line 178: the value of the mediahubmx-signature directive is the literal
\* placeholder, whatever the signature is
KeyDirective(signature) == "[$KEY$]"

RECURSIVE M3uLoop(_, _, _, _, _, _, _, _)
M3uLoop(items, signature, i, f, channel_filters, channel_remove, category_keywords, channel_logos) ==
  IF i > Len(items) THEN f
  ELSE
    LET item == items[i]
        name == ItemName(item)
        original_link == ItemUrl(item)
        record == [ tvg_id |-> sanitize_tvg_id(name),
                    logo   |-> get_logo_url(name, channel_logos),
                    group  |-> get_category(name, category_keywords),
                    key    |-> KeyDirective(signature),
                    url    |-> original_link ]
        written ==
          IF AnyWord(channel_remove, name) THEN f
          ELSE IF Len(channel_filters) > 0 /\ ~AnyWord(channel_filters, name) THEN f
          ELSE IF original_link = "" THEN f
          ELSE Append(f, record)
    IN  M3uLoop(items, signature, i + 1, written, channel_filters, channel_remove,
                category_keywords, channel_logos)

\* generate_m3u: no file when there are no items, else the records of the
\* entries the loop does not skip
generate_m3u(items, signature, channel_filters, channel_remove, category_keywords, channel_logos) ==
  IF Len(items) = 0 THEN [ file |-> "none", records |-> << >> ]
  ELSE [ file |-> "written",
         records |-> M3uLoop(items, signature, 1, << >>, channel_filters, channel_remove,
                             category_keywords, channel_logos) ]

\* names: with a marker of either path, with a run of whitespace before the
\* marker, short ones, one with no marker, one with whitespace around it
PlayNames ==
  { "Sky Sport .I", "Sky Sport .c", "Rai 1 \t.S", " .c", "x.s", "Unknown Channel",
    " tg1 ", "sky", "" }

\* channel_icons.json: empty; a key held by a name before the key equal to
\* it; an empty key; an empty value; a key with a marker
LogoMaps ==
  { << >>,
    << <<"sky", "https://logo.example/sky.png">>,
       <<"Sky Sport", "https://logo.example/skysport.png">> >>,
    << <<"", "https://logo.example/any.png">> >>,
    << <<"Rai 1", "">>, <<"Sky Sport Uno", "https://logo.example/uno.png">> >>,
    << <<"Sky Sport .s", "https://logo.example/skysport.png">> >> }

\* category_keywords.json
CategoryMaps ==
  { << <<"SPORT", <<"sky sport">> >> >>,
    << <<"ALTRI", << >> >> >>,
    << <<"NEWS", <<"TG", "news">> >>, <<"SPORT", <<"Sky">> >>, <<"ITALIA", <<"rai", "sky">> >> >> }

\* the items the upstream may send: with and without a name, with and
\* without a url
PlayItems ==
  { [name |-> "Sky Sport .I", url |-> "https://v/1"],
    [name |-> "Rai 1 .c", url |-> "https://v/2"],
    [name |-> "Sky XXX", url |-> ""],
    [url |-> "https://v/3"],
    [name |-> "tg1"] }

\* the lists of at most MaxItems items
ItemLists == UNION { [1..n -> PlayItems] : n \in 0..MaxItems }

\* lines 212-215: a signature is a non-empty string
Signatures == { "sig-one", "sig-two" }

FilterLists == { << >>, << "SKY" >>, << "rai", "unknown" >> }
RemoveLists == { << >>, << "xxx" >>, << "Sky" >> }

PlayInit ==
  /\ pOp = "none"
  /\ pName \in PlayNames /\ pLogos \in LogoMaps /\ pCats \in CategoryMaps
  /\ pItems \in ItemLists /\ pFilters \in FilterLists /\ pRemove \in RemoveLists
  /\ pSignature \in Signatures
  /\ pOut = "" /\ pRecords = << >>
  /\ ServerIdle /\ FetchIdle /\ PureIdle

\* clean_channel_name(pName), the catalog path's normalizer
ApplyClean ==
  /\ pOp = "none"
  /\ pOp' = "clean"
  /\ pOut' = clean_channel_name(pName)
  /\ UNCHANGED << pName, pLogos, pCats, pItems, pFilters, pRemove, pSignature, pRecords >>
  /\ UNCHANGED << serverVars, fetchVars, pureVars >>

\* normalize_channel_name(pName), the playlist path's normalizer
ApplyNormalize ==
  /\ pOp = "none"
  /\ pOp' = "normalize"
  /\ pOut' = normalize_channel_name(pName)
  /\ UNCHANGED << pName, pLogos, pCats, pItems, pFilters, pRemove, pSignature, pRecords >>
  /\ UNCHANGED << serverVars, fetchVars, pureVars >>

\* get_category(pName, pCats)
ApplyCategory ==
  /\ pOp = "none"
  /\ pOp' = "category"
  /\ pOut' = get_category(pName, pCats)
  /\ UNCHANGED << pName, pLogos, pCats, pItems, pFilters, pRemove, pSignature, pRecords >>
  /\ UNCHANGED << serverVars, fetchVars, pureVars >>

\* get_logo_url(pName, pLogos)
ApplyLogo ==
  /\ pOp = "none"
  /\ pOp' = "logo"
  /\ pOut' = get_logo_url(pName, pLogos)
  /\ UNCHANGED << pName, pLogos, pCats, pItems, pFilters, pRemove, pSignature, pRecords >>
  /\ UNCHANGED << serverVars, fetchVars, pureVars >>

\* generate_m3u({"items": pItems}, pSignature, pFilters, pRemove, pCats, pLogos)
ApplyM3u ==
  /\ pOp = "none"
  /\ pOp' = "m3u"
  /\ LET out == generate_m3u(pItems, pSignature, pFilters, pRemove, pCats, pLogos)
     IN  pOut' = out.file /\ pRecords' = out.records
  /\ UNCHANGED << pName, pLogos, pCats, pItems, pFilters, pRemove, pSignature >>
  /\ UNCHANGED << serverVars, fetchVars, pureVars >>

PlayNext == ApplyClean \/ ApplyNormalize \/ ApplyCategory \/ ApplyLogo \/ ApplyM3u

PlaySpec == PlayInit /\ [][PlayNext]_vars

\* ---------------------------------------------------------------------------
\* Properties
\* ---------------------------------------------------------------------------

\* neither thread is inside a request or a build
Quiescent ==
  /\ pc["req"] = "idle"
  /\ pc["sched"] \in {"sleep", "cycle", "crashed"}

\* C1: a get() that starts after a successful build has returned, with no
\* build running and nothing written since, returns the projection of the
\* snapshot that is persisted.
C1_GetAfterBuildIsNew ==
  (pc["req"] = "idle" /\ response = "metas" /\ stable /\ lastGet.some)
    => lastGet.value = Persisted

\* C2: a get() that returns while no invalidation has run since the previous
\* get() returned gives the same list as that previous get().
C2_RepeatedGetIdentical ==
  [][(pc["req"] \in GetLabels /\ pc'["req"] = "idle" /\ response' = "metas"
        /\ lastGet.some)
      => lastGet'.value = lastGet.value]_vars

\* C3: whenever no request and no build is running and the memoized slot is
\* populated, its content is the projection of the persisted snapshot under
\* the persisted Config.
C3_SlotIsProjection ==
  (Quiescent /\ channel_cache.present)
    => channel_cache.all_channels = Persisted

\* C4: a build that the refresh loop started always ends with the loop going
\* to sleep, from where the next cycle starts; the refresh thread never ends.
C4_CycleSurvivesBuild ==
  [][pc["sched"] \in BuildLabels
      => pc'["sched"] \in BuildLabels \cup {"sleep"}]_vars

\* what generate_channel_list makes of a genre that is no genre of the set
Clamp(genre) == IF genre \in AVAILABLE_GENRES THEN genre ELSE "general"

\* C5 (as stated): a hint outside AVAILABLE_GENRES is ignored, the entry gets
\* the genre that the normal resolution (GenreMap, keywords, default) gives.
C5_BadHintIgnored ==
  (op = "entry" /\ inHint # "" /\ inHint \notin AVAILABLE_GENRES)
    => outGenre = Clamp(assign_genre(inName, inMap))

\* C5 (amended): a hint of the set is the entry's genre; a non-empty hint
\* outside the set gives "general" whatever the name; with no hint the genre
\* is what assign_genre gives, replaced by "general" when outside the set.
C5_BadHintIsGeneral ==
  op = "entry" =>
    /\ inHint \in AVAILABLE_GENRES => outGenre = inHint
    /\ (inHint # "" /\ inHint \notin AVAILABLE_GENRES) => outGenre = "general"
    /\ inHint = "" => outGenre = Clamp(assign_genre(inName, inMap))
    /\ outGenre \in AVAILABLE_GENRES

\* C5 witness: 'Sky Sport .I' with the hint 'bogus' has been given "general",
\* where the normal resolution gives "sports"
C5_Witness ==
  /\ op = "entry" /\ inName = "Sky Sport .I" /\ inHint = "bogus"
  /\ inMap = EmptyDict
  /\ assign_genre(inName, inMap) = "sports"
  /\ outGenre = "general"

\* C6: a build that finds the Config incomplete returns failure, and neither
\* of its steps touches the snapshot, the GenreMap or the memoized slot.
C6_IncompleteConfigAborts ==
  [][\A t \in Threads :
       /\ (pc[t] = "bConfig" /\ pc'[t] # "bConfig")
            => /\ channelsFile' = channelsFile
               /\ genresFile' = genresFile
               /\ channel_cache' = channel_cache
       /\ (pc[t] = "bLoad" /\ pc'[t] # "bLoad"
             /\ (config[t].mediaflow_url = "" \/ config[t].mediaflow_psw = ""))
            => /\ channelsFile' = channelsFile
               /\ genresFile' = genresFile
               /\ channel_cache' = channel_cache
               /\ pc'[t] \in {"idle", "sleep"}
               /\ (t = "req" => ret' = FALSE)]_vars

\* C6 witness: the manifest route's build has aborted on a Config that does
\* not load, with a snapshot persisted and the slot populated
C6_Witness ==
  /\ pc["req"] = "idle" /\ response = "manifest" /\ ret = FALSE /\ ~wfail
  /\ configFile.st = "corrupt"
  /\ channelsFile.st = "ok" /\ channelsFile.data # << >>
  /\ channel_cache.present

\* C7: when a write of the GenreMap or of the snapshot fails in a build made
\* for a request, the build returns failure and the request does not answer
\* with success.
C7_WriteFailureReported ==
  (pc["req"] = "idle" /\ wfail)
    => (ret = FALSE /\ response \notin {"success", "manifest"})

\* the channels of the list whose genres hold the category, and whose name
\* holds the term when there is one
OfGenre(category, search, all_channels) ==
  SelectSeq(all_channels,
            LAMBDA c : /\ InList(category, c.genres)
                       /\ (search = "" \/ Contains(Lower(search), Lower(c.name))))

\* C8: a catalog query for a genre returns the channels of that genre only,
\* and a search term narrows the result within the genre.
C8_CatalogWithinGenre ==
  (op = "catalog" /\ inType = "tv" /\ StartsWith(inId, "mediaflow-"))
    => outMetas = OfGenre(Category(inId), inSearch, inList)

\* the concatenation of a sequence of pages
RECURSIVE Flatten(_)
Flatten(ps) == IF ps = << >> THEN << >> ELSE Head(ps) \o Flatten(Tail(ps))

\* C9: the fetch is over exactly when a call returned no items or failed;
\* every call before that one gave a page, the cursor is the number of items
\* received, and what is returned is the pages received, in order.
C9_FetchReturnsReceived ==
  /\ (fpc = "done") <=> (stopped \in {"empty", "failed"})
  /\ calls = Len(pages) + (IF fpc = "done" THEN 1 ELSE 0)
  /\ all_items = Flatten(pages)
  /\ cursor = Len(all_items)

\* C9 witness: the third call failed after two pages were received
C9_Witness ==
  /\ fpc = "done" /\ stopped = "failed"
  /\ Len(pages) = 2 /\ calls = 3
  /\ Len(all_items) >= 2

\* C10 (as stated): assign_genre returns a genre of AVAILABLE_GENRES for
\* every name and every GenreMap.
C10_AssignInSet ==
  op = "assign" => outGenre \in AVAILABLE_GENRES

\* C10 (amended): assign_genre returns a genre of AVAILABLE_GENRES for every
\* name when every value of the GenreMap is of the set; a value outside the
\* set is returned as it is for the name that it is mapped to.
C10_AssignInSetForValidMap ==
  op = "assign" =>
    /\ (\A k \in DOMAIN inMap : inMap[k] \in AVAILABLE_GENRES)
         => outGenre \in AVAILABLE_GENRES
    /\ Lower(clean_channel_name(inName)) \in DOMAIN inMap
         => outGenre = inMap[Lower(clean_channel_name(inName))]

\* C10 witness: 'Rai 1 .I' resolved through a GenreMap whose values are all
\* of the set
C10_Witness ==
  /\ op = "assign"
  /\ \A k \in DOMAIN inMap : inMap[k] \in AVAILABLE_GENRES
  /\ inName = "Rai 1 .I" /\ "rai 1" \in DOMAIN inMap
  /\ outGenre = "news"

\* C11: when the cleaned, lower-cased name is a key of the GenreMap,
\* assign_genre returns the genre mapped to it, whether or not the name holds
\* a keyword; the map {'rai 1': 'news'} gives 'Rai 1 .I' the genre 'news'.
C11_MapBeatsKeywords ==
  op = "assign" =>
    LET key == Lower(clean_channel_name(inName))
    IN  /\ key \in DOMAIN inMap => outGenre = inMap[key]
        /\ (inName = "Rai 1 .I" /\ "rai 1" \in DOMAIN inMap /\ inMap["rai 1"] = "news")
             => outGenre = "news"

\* C11 witness: 'Sky Sport .I' holds the keyword 'sport' and got the genre
\* that the map gives 'sky sport'
C11_Witness ==
  /\ op = "assign" /\ inName = "Sky Sport .I"
  /\ "sky sport" \in DOMAIN inMap /\ inMap["sky sport"] = "kids"
  /\ outGenre = "kids"

\* the name holds one of the words, whatever the case of either
HoldsOneOf(name, words) ==
  \E k \in 1..Len(words) : Contains(Lower(words[k]), Lower(name))

\* the entry passes the exclude keywords and the include filters
PassesFilters(item) ==
  /\ ~HoldsOneOf(ItemName(item), pRemove)
  /\ pFilters = << >> \/ HoldsOneOf(ItemName(item), pFilters)

\* the records are those of the entries kept, one each, in input order
RecordsOf(kept) ==
  /\ Len(pRecords) = Len(kept)
  /\ \A i \in 1..Len(kept) :
       /\ pRecords[i].url = ItemUrl(kept[i])
       /\ pRecords[i].tvg_id = sanitize_tvg_id(ItemName(kept[i]))

\* C12 (as stated): generate_m3u writes one record, in input order, for each
\* entry that no exclude keyword and no non-matching include filter skips;
\* nothing else skips an entry.
C12_OnlyFiltersSkip ==
  pOp = "m3u" => RecordsOf(SelectSeq(pItems, PassesFilters))

\* C12 (amended): generate_m3u writes one record, in input order, for each
\* entry that passes the exclude keywords and the include filters and has a
\* non-empty url; an entry whose url is missing or empty is skipped too.
C12_SkipsAlsoWithoutUrl ==
  pOp = "m3u" =>
    RecordsOf(SelectSeq(pItems, LAMBDA item : PassesFilters(item) /\ ItemUrl(item) # ""))

\* C12 witness: of two entries that pass a non-empty include filter, the
\* one without url was skipped and the other one was written
C12_Witness ==
  /\ pOp = "m3u" /\ pFilters # << >> /\ Len(pItems) = 2
  /\ \A i \in 1..2 : PassesFilters(pItems[i])
  /\ ItemUrl(pItems[1]) = "" /\ ItemUrl(pItems[2]) # ""
  /\ Len(pRecords) = 1 /\ pRecords[1].url = ItemUrl(pItems[2])

\* category i of pCats has a keyword that the name holds, whatever the case
CategoryMatches(i) ==
  \E k \in 1..Len(pCats[i][2]) : Contains(Lower(pCats[i][2][k]), Lower(pName))

\* the result is the first category that matches, and bucket when none does
FirstCategoryOr(bucket) ==
  \/ \E i \in 1..Len(pCats) :
       /\ CategoryMatches(i)
       /\ \A j \in 1..(i - 1) : ~CategoryMatches(j)
       /\ pOut = pCats[i][1]
  \/ /\ \A i \in 1..Len(pCats) : ~CategoryMatches(i)
     /\ pOut = bucket

\* C13 (as stated): get_category returns the first category one of whose
\* keywords is in the name, case-insensitively, and "OTHER" when no keyword
\* of any category is.
C13_DefaultIsOther ==
  pOp = "category" => FirstCategoryOr("OTHER")

\* C13 (amended): get_category returns the first category one of whose
\* keywords is in the name, case-insensitively, and "ALTRI" when no keyword
\* of any category is; with {'SPORT': ['sky sport']}, 'Sky Sport .I' is
\* 'SPORT' and 'Unknown Channel' is 'ALTRI'.
C13_DefaultIsAltri ==
  pOp = "category" =>
    /\ FirstCategoryOr("ALTRI")
    /\ pCats = << <<"SPORT", <<"sky sport">> >> >> =>
         /\ pName = "Sky Sport .I" => pOut = "SPORT"
         /\ pName = "Unknown Channel" => pOut = "ALTRI"

\* C13 witness: 'Unknown Channel' fell in the default bucket of a map that
\* has no category of that name
C13_Witness ==
  /\ pOp = "category" /\ pName = "Unknown Channel"
  /\ pCats = << <<"SPORT", <<"sky sport">> >> >>
  /\ pOut = "ALTRI"

\* the name is longer than three and ends in whitespace, a dot and a letter
HasLetterMarker(name) ==
  /\ Len(name) > 3
  /\ IsSpace(Ch(name, Len(name) - 2))
  /\ Ch(name, Len(name) - 1) = "."
  /\ IsLetter(Ch(name, Len(name)))

\* the name without its trailing marker
WithoutLetterMarker(name) ==
  IF HasLetterMarker(name) THEN SubSeq(name, 1, Len(name) - 3) ELSE name

\* the name is its first n characters, then whitespace only, then ".c" or
\* ".s" in either case
MarkerCSAfter(name, n) ==
  /\ n + 3 <= Len(name)
  /\ \A m \in (n + 1)..(Len(name) - 2) : IsSpace(Ch(name, m))
  /\ Ch(name, Len(name) - 1) = "."
  /\ Ch(name, Len(name)) \in {"c", "s", "C", "S"}

\* C14 (as stated): both normalizers drop a trailing whitespace-dot-letter
\* marker, any letter, from a name longer than three, and leave every other
\* name as it is (lower-cased in the playlist path).
C14_BothDropAnyLetter ==
  /\ pOp = "clean" => pOut = WithoutLetterMarker(pName)
  /\ pOp = "normalize" => pOut = Lower(WithoutLetterMarker(pName))

\* C14 (amended): clean_channel_name drops a trailing whitespace-dot-letter
\* marker, any letter, from a name longer than three and leaves every other
\* name as it is.  normalize_channel_name drops only a trailing ".c" or ".s"
\* (either case) together with the whole run of whitespace before it, from a
\* name of any length, and then trims and lower-cases whatever is left.
C14_PlaylistDropsOnlyCS ==
  /\ pOp = "clean" => pOut = WithoutLetterMarker(pName)
  /\ pOp = "normalize" =>
       /\ \A n \in 0..Len(pName) :
            MarkerCSAfter(pName, n) => pOut = Lower(Strip(SubSeq(pName, 1, n)))
       /\ (\A n \in 0..Len(pName) : ~MarkerCSAfter(pName, n))
            => pOut = Lower(Strip(pName))

\* C14 witness: the playlist path dropped ".S" with the two whitespace
\* characters before it
C14_Witness ==
  /\ pOp = "normalize" /\ pName = "Rai 1 \t.S" /\ pOut = "rai 1"

\* C15: get_logo_url returns a non-empty URL for every name and every
\* LogoMap, an empty map and a map with an empty key or an empty value
\* included.
C15_LogoNeverEmpty ==
  pOp = "logo" => pOut # ""

\* the step in which the build of thread t turns the raw entries into
\* records gives one record per entry, in order, with the entry's name and
\* url, and the genre "sports" to a hint-less 'Sky Sport .I' when the
\* GenreMap it loaded is empty
RecordsFromEntries(t) ==
  (pc[t] = "bSample" /\ pc'[t] = "bSaveGenres") =>
    LET raw == load_json_file(sampleFile', << >>)
        records == channels_data'[t]
    IN  /\ Len(records) = Len(raw)
        /\ \A i \in 1..Len(raw) :
             /\ records[i].name = raw[i].name
             /\ records[i].url = raw[i].url
             /\ records[i].genre \in AVAILABLE_GENRES
             /\ (raw[i].name = "Sky Sport .I" /\ "genre" \notin DOMAIN raw[i]
                   /\ genre_mapping[t] = EmptyDict)
                  => records[i].genre = "sports"

\* a list of metas is derived, one by one and in order, from the persisted
\* records under the persisted Config
MetasFromSnapshot(metas) ==
  LET cfg == load_json_file(configFile, DefaultConfig)
      records == load_json_file(channelsFile, << >>)
  IN  /\ Len(metas) = Len(records)
      /\ \A i \in 1..Len(records) :
           LET url == metas[i].streamInfo.url
           IN  /\ StartsWith(url, "https://" \o cfg.mediaflow_url \o "/proxy/hls/manifest.m3u8?")
               /\ Contains("api_password=" \o quote_plus(cfg.mediaflow_psw) \o "&", url)
               /\ Contains("&d=" \o quote_plus(records[i].url) \o "&", url)
               /\ (cfg.mediaflow_psw = "secret" /\ records[i].url = "https://x/sky.m3u8")
                    => Contains("api_password=secret&d=https%3A%2F%2Fx%2Fsky.m3u8&", url)
               /\ metas[i].genres = << records[i].genre >>

\* a get() that started after a successful build had returned, with no build
\* running and nothing written since, has returned under a complete Config
GetAfterBuildReturned ==
  /\ pc["req"] = "idle" /\ response = "metas" /\ stable /\ lastGet.some
  /\ ~ConfigIncomplete(load_json_file(configFile, DefaultConfig))

\* C16: a build makes one record of each raw entry, in order, and a get()
\* that follows a successful build returns one meta for each record of the
\* snapshot, in order: its stream URL points at the configured proxy host
\* and carries the configured credential and the record's URL, URL-encoded,
\* and its genre is the record's genre.
C16_BuildThenGet ==
  /\ [][\A t \in Threads : RecordsFromEntries(t)]_vars
  /\ [](GetAfterBuildReturned => MetasFromSnapshot(lastGet.value))

\* C17: when a build has persisted its snapshot, the persisted GenreMap
\* holds, for every entry it processed, the key that assign_genre looks up
\* (the cleaned, lower-cased name), so that assign_genre finds the entry.
C17_MapHoldsLookupKey ==
  \A t \in Threads :
    pc[t] = "bTest" =>
      LET persisted == load_json_file(genresFile, EmptyDict)
      IN  \A i \in 1..Len(channels_data[t]) :
            LET key == Lower(clean_channel_name(channels_data[t][i].name))
            IN  /\ key \in DOMAIN persisted
                /\ assign_genre(channels_data[t][i].name, persisted) = persisted[key]

\* C18: a build that writes the GenreMap keeps every key the persisted map
\* had, with its genre, and every genre it adds is one of AVAILABLE_GENRES.
C18_MapAppendOnly ==
  [][(genresFile' # genresFile /\ genresFile'.st = "ok") =>
       LET old == load_json_file(genresFile, EmptyDict)
           new == genresFile'.data
       IN  /\ \A k \in DOMAIN old : k \in DOMAIN new /\ new[k] = old[k]
           /\ \A k \in DOMAIN new \ DOMAIN old : new[k] \in AVAILABLE_GENRES]_vars

\* C19: when the cleaned, lower-cased name is no key of the GenreMap,
\* assign_genre returns the genre of the first keyword, in declared order,
\* that the name holds, and "general" when it holds none; a name that holds
\* 'sport' gets "sports" even when it holds 'news' too.
C19_FirstKeywordDecides ==
  LET key == Lower(clean_channel_name(inName))
  IN  (op = "assign" /\ key \notin DOMAIN inMap) =>
        /\ \/ \E i \in 1..Len(Keywords) :
                /\ Contains(Keywords[i][1], key)
                /\ \A j \in 1..(i - 1) : ~Contains(Keywords[j][1], key)
                /\ outGenre = Keywords[i][2]
           \/ /\ \A i \in 1..Len(Keywords) : ~Contains(Keywords[i][1], key)
              /\ outGenre = "general"
        /\ Contains("sport", key) => outGenre = "sports"

\* C19 witness: 'Sport News .S' holds 'sport' and 'news', is no key of the
\* map, and got "sports"
C19_Witness ==
  /\ op = "assign" /\ inName = "Sport News .S"
  /\ "sport news" \notin DOMAIN inMap
  /\ Contains("sport", "sport news") /\ Contains("news", "sport news")
  /\ outGenre = "sports"

\* C20: when some key of the LogoMap normalizes to the normalized name,
\* get_logo_url returns the URL of (the first) such key, whatever keys that
\* merely hold the name, or are held by it, come earlier in the map.
C20_ExactBeforePartial ==
  pOp = "logo" =>
    LET exact == { i \in 1..Len(pLogos) :
                     normalize_channel_name(pLogos[i][1]) = normalize_channel_name(pName) }
    IN  exact # {} => pOut = pLogos[CHOOSE i \in exact : \A j \in exact : i <= j][2]

\* the five persisted documents
Documents == << configFile, headersFile, genresFile, channelsFile, sampleFile >>

\* the step of a get() on a miss that finds the config incomplete (any
\* snapshot), or the config complete and the snapshot absent or empty
EmptyMissStep ==
  /\ pc'["req"] # pc["req"]
  /\ \/ /\ pc["req"] = "gConfig"
        /\ ConfigIncomplete(load_json_file(configFile, DefaultConfig))
     \/ /\ pc["req"] = "gChannels"
        /\ load_json_file(channelsFile, << >>) = << >>

\* C21: on a miss, a get() that finds the config incomplete, or the config
\* complete and the snapshot absent or empty, answers the empty list (no
\* error), leaves the cache slot and the persisted documents as they were;
\* and the slot never holds an empty list, so a later get() recomputes.
C21_EmptyMissIsInert ==
  /\ [][EmptyMissStep =>
          /\ pc'["req"] = "idle"
          /\ response' = "metas"
          /\ lastGet' = [some |-> TRUE, value |-> << >>]
          /\ channel_cache' = channel_cache
          /\ Documents' = Documents]_vars
  /\ [](channel_cache.present => channel_cache.all_channels # << >>)

\* C21 witness: a get() on a miss answered the empty list because the
\* config is incomplete, with a snapshot that holds channels, and nothing
\* was memoized
C21_Witness ==
  /\ pc["req"] = "idle" /\ response = "metas"
  /\ lastGet = [some |-> TRUE, value |-> << >>]
  /\ ~channel_cache.present
  /\ ConfigIncomplete(load_json_file(configFile, DefaultConfig))
  /\ load_json_file(channelsFile, << >>) # << >>

\* C22: the delete of the invalidation step (line 301) always finds the slot
\* that the test (line 300) saw: no build raises at the delete, no route
\* answers 500 for it and the refresh thread does not end there.
C22_DeleteNeverRaises ==
  [][\A t \in Threads :
       (pc[t] = "bDel" /\ pc'[t] # "bDel")
         => /\ channel_cache.present
            /\ pc'[t] \notin {"crashed", "exited"}
            /\ (t = "req" => response' # "error500")]_vars

\* the number of items of the first n pages received
Received(n) == Len(Flatten(SubSeq(pages, 1, n)))

\* C23: each upstream call carries as its cursor the number of items
\* accumulated from the pages of all earlier calls, 0 for the first; the
\* cursor is the length of the accumulated list at every iteration, and it
\* never decreases.
C23_CursorCountsItems ==
  /\ [](/\ Len(sent) = calls
        /\ \A k \in 1..Len(sent) : sent[k] = Received(k - 1)
        /\ cursor = Len(all_items))
  /\ [][cursor' >= cursor]_vars

\* C23 witness: three calls were made, with the cursors 0, 2 and 4, after
\* two pages of two items
C23_Witness ==
  /\ Len(sent) = 3 /\ sent[1] = 0 /\ sent[2] = 2 /\ sent[3] = 4
  /\ Len(all_items) = 4

\* C24: with an upstream that stops sending non-empty pages after finitely
\* many calls, get_channel_list returns; and the loop is left only by a call
\* that gave no page, one that returned no items or one that failed.
C24_FetchTerminates ==
  /\ <>(fpc = "done")
  /\ [][(fpc = "loop" /\ fpc' = "done")
         => /\ stopped' \in {"empty", "failed"}
            /\ pages' = pages
            /\ calls' = calls + 1]_vars

\* C24 witness: the loop ended on an empty page after two pages of items
C24_Witness ==
  /\ fpc = "done" /\ stopped = "empty"
  /\ Len(pages) = 2 /\ calls = 3

\* C25: the playlist of a run is the playlist that any other signature
\* gives for the same entries, filters, excludes, category keywords and
\* logos, and the signature directive of each of its records carries the
\* placeholder [$KEY$], never the signature of the run.
C25_PlaylistIgnoresSignature ==
  pOp = "m3u" =>
    /\ \A sig \in Signatures :
         generate_m3u(pItems, sig, pFilters, pRemove, pCats, pLogos)
           = [file |-> pOut, records |-> pRecords]
    /\ \A i \in 1..Len(pRecords) :
         pRecords[i].key = "[$KEY$]" /\ pRecords[i].key # pSignature

\* C25 witness: a playlist of two records was written in a run whose
\* signature is 'sig-two'
C25_Witness ==
  /\ pOp = "m3u" /\ pOut = "written" /\ pSignature = "sig-two"
  /\ Len(pRecords) = 2

=============================================================================
